---- MODULE Spec2Model ----
(***************************************************************************)
(* retro-pricer: the DK Oldies buy-list cache and its concurrent readers   *)
(* (scraper.get_dkoldies_buy_price), buy-list acquisition with its bundled *)
(* fallback, the fuzzy buy-price matcher, the deal rating engine and the   *)
(* PriceCharting price fetcher.                                            *)
(*                                                                         *)
(* A text is a sequence of characters, each a one-character string; a      *)
(* character outside ASCII is written by its code point ("U+00E9").        *)
(* A Python exception is a value: every modelled function returns a record *)
(* [exc, val] whose exc is "none" or the exception's class.                *)
(***************************************************************************)
EXTENDS Integers, Sequences, FiniteSets, TLC

VARIABLES
    clock,          \* time.time(), in seconds
    cache,          \* _dko_buylist_cache: [data, fetched_at]
    pc,             \* per handler: position inside get_dkoldies_buy_price
    now,            \* per handler: the local `now`
    query,          \* per handler: the argument game_name
    fetched,        \* per handler: value returned by _fetch_dkoldies_buylist
    buylist,        \* per handler: the local `buylist`
    acq,            \* history, per handler: number of its own acquisition
    calls,          \* history: calls started so far
    acqCount,       \* history: acquisitions attempted so far
    dataAcq,        \* history: the acquisition that produced cache.data
    stampAcq,       \* history: the acquisition whose `now` is cache.fetched_at
    lastAcqNow,     \* history: `now` of the latest acquisition attempted
    input,          \* pure-function runs: the arguments
    output,         \* pure-function runs: the value returned
    done,           \* pure-function runs: the function has been applied
    price_cache,    \* the table price_cache of db.py, by (pc_console, slug)
    response,       \* what the latest /prices request answered
    lookup,         \* history: the table's entry when that request read it
    requests,       \* history: /prices requests so far
    elapses         \* history: steps of the clock between requests so far

cacheVars == <<clock, cache, pc, now, query, fetched, buylist, acq,
               calls, acqCount, dataAcq, stampAcq, lastAcqNow>>
pureVars == <<input, output, done>>
dbVars == <<price_cache, response, lookup, requests, elapses>>
vars == <<cacheVars, pureVars, dbVars>>

-----------------------------------------------------------------------------
(* Sequences *)

RECURSIVE Flatten(_)
Flatten(ss) == IF ss = <<>> THEN <<>> ELSE Head(ss) \o Flatten(Tail(ss))

SeqMap(F(_), s) == [i \in 1..Len(s) |-> F(s[i])]

Range(s) == {s[i] : i \in 1..Len(s)}

Max(a, b) == IF a >= b THEN a ELSE b

-----------------------------------------------------------------------------
(* Characters *)

LowerCase == <<"a","b","c","d","e","f","g","h","i","j","k","l","m",
               "n","o","p","q","r","s","t","u","v","w","x","y","z">>
UpperCase == <<"A","B","C","D","E","F","G","H","I","J","K","L","M",
               "N","O","P","Q","R","S","T","U","V","W","X","Y","Z">>
Digits == <<"0","1","2","3","4","5","6","7","8","9">>

\* unicodedata.normalize("NFKD", c).encode("ascii", "ignore").decode()
AsciiFold(c) ==
    CASE c = "U+00E9" -> <<"e">>          \* e + combining acute
      [] c = "U+00DC" -> <<"U">>          \* U + combining diaeresis
      [] c = "U+2122" -> <<"T", "M">>     \* trade mark sign
      [] c = "U+2603" -> <<>>             \* no ASCII decomposition
      [] OTHER -> <<c>>

\* str.lower() on an ASCII character
Lower(c) ==
    IF c \in Range(UpperCase)
    THEN LowerCase[CHOOSE i \in 1..Len(UpperCase) : UpperCase[i] = c]
    ELSE c

IsWordChar(c) == c \in Range(LowerCase) \cup Range(Digits)

\* re.sub(r"[^a-z0-9 ]", " ", ...) on one character
Clean(c) == IF IsWordChar(c) \/ c = " " THEN c ELSE " "

-----------------------------------------------------------------------------
(* _normalise *)

\* the alternation of the regular expression of line 249
StopWords == {
    <<"t","h","e">>, <<"a">>, <<"a","n">>, <<"f","o","r">>, <<"i","n">>,
    <<"o","f">>, <<"a","n","d">>, <<"w","i","t","h">>, <<"w">>,
    <<"w","i","i">>, <<"n","e","s">>, <<"n","6","4">>, <<"s","n","e","s">>,
    <<"g","b","a">>, <<"g","b","c">>, <<"n","d","s">>, <<"p","s","p">>,
    <<"p","s","1">>, <<"p","s","2">>, <<"p","s","3">>, <<"x","b","o","x">>,
    <<"g","a","m","e","c","u","b","e">>, <<"g","e","n","e","s","i","s">>,
    <<"s","a","t","u","r","n">>, <<"d","r","e","a","m","c","a","s","t">> }

\* the maximal runs of a text over [a-z0-9 ]: word runs and space runs
RECURSIVE Runs(_)
Runs(s) ==
    IF s = <<>> THEN <<>>
    ELSE LET rest == Runs(Tail(s))
             c == Head(s)
         IN  IF rest # <<>> /\ (Head(rest)[1] = " ") = (c = " ")
             THEN <<<<c>> \o Head(rest)>> \o Tail(rest)
             ELSE <<<<c>>>> \o rest

\* the substitution of line 249 given count=1: only the first stop word goes
SubStopWordsFirst(s) ==
    LET runs == Runs(s)
        stops == {i \in 1..Len(runs) : runs[i] \in StopWords}
    IN  Flatten([i \in 1..Len(runs) |->
                    IF i \in stops /\ \A j \in stops : i <= j THEN <<" ">> ELSE runs[i]])

\* re.sub(r"\b(the|a|...)\b", " ", text): a whole word run that is a stop word
SubStopWords(s) ==
    Flatten(SeqMap(LAMBDA r : IF r \in StopWords THEN <<" ">> ELSE r, Runs(s)))

\* re.sub(r"\s+", " ", text)
CollapseSpaces(s) ==
    Flatten(SeqMap(LAMBDA r : IF r[1] = " " THEN <<" ">> ELSE r, Runs(s)))

\* str.strip() of a text over [a-z0-9 ]
RECURSIVE Strip(_)
Strip(s) ==
    IF s = <<>> THEN s
    ELSE IF Head(s) = " " THEN Strip(Tail(s))
    ELSE IF s[Len(s)] = " " THEN Strip(SubSeq(s, 1, Len(s) - 1))
    ELSE s

Normalise(text) ==
    LET folded == Flatten(SeqMap(AsciiFold, text))
        lowered == SeqMap(Lower, folded)
        cleaned == SeqMap(Clean, lowered)
    IN  Strip(CollapseSpaces(SubStopWords(cleaned)))

\* set(s.split()) for a text over [a-z0-9 ]
WordSet(s) == {r \in Range(Runs(s)) : r[1] # " "}

-----------------------------------------------------------------------------
(* Values *)

\* an optional integer: None, or an int
Absent == [has |-> FALSE, v |-> 0]
Some(v) == [has |-> TRUE, v |-> v]

\* what a call yields: a returned value, or a raised exception
Ret(v) == [exc |-> "none", val |-> v]
Raise(e) == [exc |-> e, val |-> <<>>]

\* The text of a price: body is "empty", "junk" (not a number), "nan", "inf"
\* or "num"; dollar and comma say that it holds a "$" and a thousands
\* separator; value100 is int(float(digits) * 100) of a "num" body.
PriceText(body, dollar, comma, value100) ==
    [body |-> body, dollar |-> dollar, comma |-> comma, value100 |-> value100]

\* _parse_price: "$" and "," are removed; None for "" and on ValueError
\* (float(""), float("abc"), int(nan)); int(float("inf") * 100) raises
\* OverflowError, which is not caught
ParsePrice(p) ==
    CASE p.body \in {"empty", "junk", "nan"} -> Ret(Absent)
      [] p.body = "inf" -> Raise("OverflowError")
      [] p.body = "num" -> Ret(Some(p.value100))

-----------------------------------------------------------------------------
(* The buy-list mapping: a Python dict, in insertion order *)

Entry(key, name, cents) == [key |-> key, name |-> name, cents |-> cents]

\* d[key] = {"name": name, "cents": cents}: a key already present keeps its
\* place and takes the new value
DictPut(d, key, name, cents) ==
    IF \E i \in 1..Len(d) : d[i].key = key
    THEN [i \in 1..Len(d) |->
            IF d[i].key = key THEN Entry(key, name, cents) ELSE d[i]]
    ELSE Append(d, Entry(key, name, cents))

IsEmpty(d) == Len(d) = 0

-----------------------------------------------------------------------------
(* _load_buylist_from_json *)

\* The bundled file: state is "missing", "bad_json" or "list"; an item is
\* [has_name, name, has_cents, cents].
Item(name, cents) ==
    [has_name |-> TRUE, name |-> name, has_cents |-> TRUE, cents |-> cents]

\* the dict comprehension of line 213
RECURSIVE LoadItems(_, _)
LoadItems(items, d) ==
    IF items = <<>> THEN Ret(d)
    ELSE LET item == Head(items)
         IN  IF ~item.has_name \/ ~item.has_cents THEN Raise("KeyError")
             ELSE LoadItems(Tail(items),
                            DictPut(d, Normalise(item.name), item.name, item.cents))

\* `except Exception` of lines 214 and 239
ExceptionClasses == {"ConnectionError", "Timeout", "HTTPError", "ValueError",
                     "OverflowError", "KeyError", "IndexError", "TypeError",
                     "FileNotFoundError", "JSONDecodeError"}

\* `except ValueError` in place of `except Exception`
CaughtOnlyValueError(e) == e = "ValueError"

CaughtByExceptException(e) == e \in ExceptionClasses

JsonLoadFile(file) ==
    CASE file.state = "missing" -> Raise("FileNotFoundError")
      [] file.state = "bad_json" -> Raise("JSONDecodeError")
      [] file.state = "list" -> LoadItems(file.items, <<>>)

LoadBuylistFromJson(file) ==
    LET r == JsonLoadFile(file)
    IN  IF r.exc = "none" THEN r
        ELSE IF CaughtByExceptException(r.exc) THEN Ret(<<>>)
        ELSE r

-----------------------------------------------------------------------------
(* _fetch_dkoldies_buylist *)

\* The live response: transport is "ok" or the exception session.get raises;
\* ok is resp.ok; challenge says the body holds "just a moment"; a row is
\* [has_label, label, has_price, price].
Row(label, price) ==
    [has_label |-> TRUE, label |-> label, has_price |-> TRUE, price |-> price]

\* the loop of lines 227-236 without the test `cents > 0` of line 235
RECURSIVE ScrapeRowsAnyPrice(_, _)
ScrapeRowsAnyPrice(rows, d) ==
    IF rows = <<>> THEN Ret(d)
    ELSE LET row == Head(rows)
         IN  IF ~row.has_label \/ ~row.has_price
             THEN ScrapeRowsAnyPrice(Tail(rows), d)
             ELSE LET cents == ParsePrice(row.price)
                  IN  IF cents.exc # "none" THEN Raise(cents.exc)
                      ELSE IF cents.val.has
                      THEN ScrapeRowsAnyPrice(Tail(rows),
                               DictPut(d, Normalise(row.label), row.label, cents.val.v))
                      ELSE ScrapeRowsAnyPrice(Tail(rows), d)

\* the loop of lines 227-236
RECURSIVE ScrapeRows(_, _)
ScrapeRows(rows, d) ==
    IF rows = <<>> THEN Ret(d)
    ELSE LET row == Head(rows)
         IN  IF ~row.has_label \/ ~row.has_price
             THEN ScrapeRows(Tail(rows), d)
             ELSE LET cents == ParsePrice(row.price)
                  IN  IF cents.exc # "none" THEN Raise(cents.exc)
                      ELSE IF cents.val.has /\ cents.val.v # 0 /\ cents.val.v > 0
                      THEN ScrapeRows(Tail(rows),
                               DictPut(d, Normalise(row.label), row.label, cents.val.v))
                      ELSE ScrapeRows(Tail(rows), d)

\* the try block of lines 222-238; a returned empty mapping falls through
LiveScrape(live) ==
    IF live.transport # "ok" THEN Raise(live.transport)
    ELSE IF ~live.ok \/ live.challenge THEN Raise("ValueError")
    ELSE ScrapeRows(live.rows, <<>>)

FetchDkoldiesBuylist(live, file) ==
    LET r == LiveScrape(live)
    IN  IF r.exc = "none"
        THEN IF ~IsEmpty(r.val) THEN r ELSE LoadBuylistFromJson(file)
        ELSE IF CaughtByExceptException(r.exc) THEN LoadBuylistFromJson(file)
        ELSE r

-----------------------------------------------------------------------------
(* get_dkoldies_buy_price, lines 261-285: the matcher *)

\* the loop of lines 270-279 with `score >= best_score` at line 278
RECURSIVE BestMatchLastWins(_, _, _)
BestMatchLastWins(keys, needle_words, best) ==
    IF keys = <<>> THEN best
    ELSE LET key_words == WordSet(Head(keys))
             overlap == Cardinality(needle_words \cap key_words)
             den == Max(Cardinality(needle_words), Cardinality(key_words))
         IN  IF key_words = {} THEN BestMatchLastWins(Tail(keys), needle_words, best)
             ELSE IF overlap * best.den >= best.num * den
             THEN BestMatchLastWins(Tail(keys), needle_words,
                            [has |-> TRUE, key |-> Head(keys), num |-> overlap, den |-> den])
             ELSE BestMatchLastWins(Tail(keys), needle_words, best)

\* the loop of lines 270-279; a score is the fraction num / den
RECURSIVE BestMatch(_, _, _)
BestMatch(keys, needle_words, best) ==
    IF keys = <<>> THEN best
    ELSE LET key_words == WordSet(Head(keys))
             overlap == Cardinality(needle_words \cap key_words)
             den == Max(Cardinality(needle_words), Cardinality(key_words))
         IN  IF key_words = {} THEN BestMatch(Tail(keys), needle_words, best)
             ELSE IF overlap * best.den > best.num * den
             THEN BestMatch(Tail(keys), needle_words,
                            [has |-> TRUE, key |-> Head(keys), num |-> overlap, den |-> den])
             ELSE BestMatch(Tail(keys), needle_words, best)

NoMatch == [has |-> FALSE, name |-> <<>>, buy_cents |-> 0]

\* best_score > 0.5
AcceptsAboveHalf(num, den) == 2 * num > den

\* best_score >= 0.5
Accepts(num, den) == 2 * num >= den

MatchBuyPrice(mapping, game_name) ==
    IF IsEmpty(mapping) THEN NoMatch
    ELSE LET needle_words == WordSet(Normalise(game_name))
         IN  IF needle_words = {} THEN NoMatch
             ELSE LET best == BestMatch(SeqMap(LAMBDA e : e.key, mapping), needle_words,
                                        [has |-> FALSE, key |-> <<>>, num |-> 0, den |-> 1])
                  IN  IF Accepts(best.num, best.den) /\ best.has /\ best.key # <<>>
                      THEN LET entry == mapping[CHOOSE i \in 1..Len(mapping) :
                                                    mapping[i].key = best.key]
                           IN  [has |-> TRUE, name |-> entry.name, buy_cents |-> entry.cents]
                      ELSE NoMatch

-----------------------------------------------------------------------------
(* Bounds and sample inputs *)

StartClock == 4800      \* time.time() when the process starts
TickStep == 3600        \* seconds by which the clock advances in one step
MaxClock == 12000       \* the clock stops here
MaxCalls == 3           \* calls of get_dkoldies_buy_price in one run

DKO_BUYLIST_TTL == 3600

\* the request handlers that run concurrently: two, the fewest that can race
Handlers == {"h1", "h2"}

Num(c) == PriceText("num", TRUE, FALSE, c)

NameZ3 == <<"T","h","e"," ","Z",":"," ","3">>       \* "The Z: 3"  -> "z 3"
NameZM == <<"Z","U+00E9"," ","M"," ","(","N","6","4",")">>  \* "Ze M (N64)" -> "ze m"
NameM == <<"m">>
NameThe == <<"T","h","e">>                          \* normalises to ""

LiveDown == [transport |-> "ConnectionError", ok |-> FALSE, challenge |-> FALSE,
             rows |-> <<>>]
LivePage(rows) == [transport |-> "ok", ok |-> TRUE, challenge |-> FALSE, rows |-> rows]
FileMissing == [state |-> "missing", items |-> <<>>]
FileList(items) == [state |-> "list", items |-> items]

CacheLives == {LiveDown, LivePage(<<Row(NameZ3, Num(4500))>>)}
CacheFiles == {FileMissing, FileList(<<Item(NameM, 700)>>)}
CacheQueries == {<<"z"," ","3">>, <<"M","!">>}

-----------------------------------------------------------------------------
(* get_dkoldies_buy_price, run by concurrent request handlers *)

\* now - _dko_buylist_cache["fetched_at"] > _DKO_BUYLIST_TTL
Stale(n, fetched_at) == n - fetched_at > DKO_BUYLIST_TTL

\* line 256: the handler enters and reads the clock
Call(t, q) ==
    /\ pc[t] = "idle"
    /\ calls < MaxCalls
    /\ calls' = calls + 1
    /\ pc' = [pc EXCEPT ![t] = "check_ttl"]
    /\ now' = [now EXCEPT ![t] = clock]
    /\ query' = [query EXCEPT ![t] = q]
    /\ UNCHANGED <<clock, cache, fetched, buylist, acq, acqCount, dataAcq, stampAcq,
                   lastAcqNow>>

\* line 257, left operand of `or`: reads fetched_at
CheckTtl(t) ==
    /\ pc[t] = "check_ttl"
    /\ pc' = [pc EXCEPT ![t] = IF Stale(now[t], cache.fetched_at)
                               THEN "fetch" ELSE "check_empty"]
    /\ UNCHANGED <<calls, clock, cache, now, query, fetched, buylist, acq, acqCount,
                   dataAcq, stampAcq, lastAcqNow>>

\* line 257 without its right operand: an empty cache is not refreshed
CheckEmptyDropped(t) ==
    /\ pc[t] = "check_empty"
    /\ pc' = [pc EXCEPT ![t] = "read"]
    /\ UNCHANGED <<calls, clock, cache, now, query, fetched, buylist, acq, acqCount,
                   dataAcq, stampAcq, lastAcqNow>>

\* line 257, right operand of `or`: reads data
CheckEmpty(t) ==
    /\ pc[t] = "check_empty"
    /\ pc' = [pc EXCEPT ![t] = IF IsEmpty(cache.data) THEN "fetch" ELSE "read"]
    /\ UNCHANGED <<calls, clock, cache, now, query, fetched, buylist, acq, acqCount,
                   dataAcq, stampAcq, lastAcqNow>>

\* line 258, right-hand side: the call of _fetch_dkoldies_buylist
Fetch(t, live, file) ==
    /\ pc[t] = "fetch"
    /\ LET r == FetchDkoldiesBuylist(live, file)
       IN  IF r.exc = "none"
           THEN /\ fetched' = [fetched EXCEPT ![t] = r.val]
                /\ pc' = [pc EXCEPT ![t] = "store_data"]
           ELSE /\ pc' = [pc EXCEPT ![t] = "raised"]
                /\ fetched' = fetched
    /\ acqCount' = acqCount + 1
    /\ acq' = [acq EXCEPT ![t] = acqCount + 1]
    /\ lastAcqNow' = now[t]
    /\ UNCHANGED <<calls, clock, cache, now, query, buylist, dataAcq, stampAcq>>

\* line 258: the store into _dko_buylist_cache["data"]
StoreData(t) ==
    /\ pc[t] = "store_data"
    /\ cache' = [cache EXCEPT !.data = fetched[t]]
    /\ dataAcq' = acq[t]
    /\ pc' = [pc EXCEPT ![t] = "store_time"]
    /\ UNCHANGED <<calls, clock, now, query, fetched, buylist, acq, acqCount, stampAcq,
                   lastAcqNow>>

\* line 259: the store into _dko_buylist_cache["fetched_at"]
StoreTime(t) ==
    /\ pc[t] = "store_time"
    /\ cache' = [cache EXCEPT !.fetched_at = now[t]]
    /\ stampAcq' = acq[t]
    /\ pc' = [pc EXCEPT ![t] = "read"]
    /\ UNCHANGED <<calls, clock, now, query, fetched, buylist, acq, acqCount, dataAcq,
                   lastAcqNow>>

\* line 261: buylist = _dko_buylist_cache["data"]
ReadData(t) ==
    /\ pc[t] = "read"
    /\ buylist' = [buylist EXCEPT ![t] = cache.data]
    /\ pc' = [pc EXCEPT ![t] = "match"]
    /\ UNCHANGED <<calls, clock, cache, now, query, fetched, acq, acqCount, dataAcq,
                   stampAcq, lastAcqNow>>

\* lines 262-285: what the handler returns from its own locals
Returned(t) == MatchBuyPrice(buylist[t], query[t])

\* lines 262-285: the handler returns Returned(t) and its locals are dropped
Return(t) ==
    /\ pc[t] = "match"
    /\ pc' = [pc EXCEPT ![t] = "idle"]
    /\ now' = [now EXCEPT ![t] = 0]
    /\ query' = [query EXCEPT ![t] = <<>>]
    /\ fetched' = [fetched EXCEPT ![t] = <<>>]
    /\ buylist' = [buylist EXCEPT ![t] = <<>>]
    /\ acq' = [acq EXCEPT ![t] = 0]
    /\ UNCHANGED <<calls, clock, cache, acqCount, dataAcq, stampAcq, lastAcqNow>>

\* time passes
Tick ==
    /\ clock + TickStep <= MaxClock
    /\ clock' = clock + TickStep
    /\ UNCHANGED <<calls, cache, pc, now, query, fetched, buylist, acq, acqCount, dataAcq,
                   stampAcq, lastAcqNow>>

CacheInit ==
    /\ clock = StartClock
    /\ cache = [data |-> <<>>, fetched_at |-> 0]      \* line 201
    /\ pc = [t \in Handlers |-> "idle"]
    /\ now = [t \in Handlers |-> 0]
    /\ query = [t \in Handlers |-> <<>>]
    /\ fetched = [t \in Handlers |-> <<>>]
    /\ buylist = [t \in Handlers |-> <<>>]
    /\ acq = [t \in Handlers |-> 0]
    /\ calls = 0
    /\ acqCount = 0
    /\ dataAcq = 0
    /\ stampAcq = 0
    /\ lastAcqNow = 0

PureIdle == input = <<>> /\ output = <<>> /\ done = FALSE

\* the rows the sample requests ask for
PriceKeys == {<<"nes", "zelda">>, <<"nes", "metroid">>}

\* no row of the table (fetchone() returns None)
NoRow == [has |-> FALSE, row |-> <<>>]

NoResponse == [status |-> "none", key |-> <<>>, body |-> <<>>]

NoLookup == [had |-> FALSE, age |-> 0, row |-> <<>>]

\* db.init() on an empty database
DbInit ==
    /\ price_cache = [k \in PriceKeys |-> NoRow]
    /\ response = NoResponse
    /\ lookup = NoLookup
    /\ requests = 0
    /\ elapses = 0

Init == CacheInit /\ PureIdle /\ DbInit

Next ==
    \/ \E t \in Handlers, q \in CacheQueries : Call(t, q) /\ UNCHANGED <<pureVars, dbVars>>
    \/ \E t \in Handlers : CheckTtl(t) /\ UNCHANGED <<pureVars, dbVars>>
    \/ \E t \in Handlers : CheckEmpty(t) /\ UNCHANGED <<pureVars, dbVars>>
    \/ \E t \in Handlers, live \in CacheLives, file \in CacheFiles :
          Fetch(t, live, file) /\ UNCHANGED <<pureVars, dbVars>>
    \/ \E t \in Handlers : StoreData(t) /\ UNCHANGED <<pureVars, dbVars>>
    \/ \E t \in Handlers : StoreTime(t) /\ UNCHANGED <<pureVars, dbVars>>
    \/ \E t \in Handlers : ReadData(t) /\ UNCHANGED <<pureVars, dbVars>>
    \/ \E t \in Handlers : Return(t) /\ UNCHANGED <<pureVars, dbVars>>
    \/ Tick /\ UNCHANGED <<pureVars, dbVars>>

Spec == Init /\ [][Next]_vars

-----------------------------------------------------------------------------
(* The buy-list cache under concurrent handlers *)

Moves(t) == pc'[t] # pc[t]

Acquires(t) == pc[t] = "fetch" /\ Moves(t)

\* C1: under any interleaving of calls, an acquisition is attempted only by a
\* call whose timestamp is more than TTL seconds after that of the latest
\* acquisition, unless the cached mapping is empty.
C1_AtMostOncePerInterval ==
    [][\A t \in Handlers :
          Acquires(t) =>
              \/ now[t] - lastAcqNow > DKO_BUYLIST_TTL
              \/ Len(cache.data) = 0]_vars

\* C2: a call acquires if and only if its timestamp is more than TTL seconds
\* after fetched_at or the cached mapping is empty; a call that does not
\* acquire changes neither the cached mapping nor fetched_at and fetches nothing.
C2_RefreshIffStaleOrEmpty ==
    [][/\ \A t \in Handlers :
            /\ (pc[t] = "check_ttl" /\ Moves(t)) =>
                   pc'[t] = (IF now[t] - cache.fetched_at > DKO_BUYLIST_TTL
                             THEN "fetch" ELSE "check_empty")
            /\ (pc[t] = "check_empty" /\ Moves(t)) =>
                   pc'[t] = (IF Len(cache.data) = 0 THEN "fetch" ELSE "read")
            /\ (pc'[t] = "fetch" /\ Moves(t)) => pc[t] \in {"check_ttl", "check_empty"}
            /\ (pc'[t] = "store_data" /\ Moves(t)) => pc[t] = "fetch"
            /\ (pc'[t] = "store_time" /\ Moves(t)) => pc[t] = "store_data"
       /\ (cache' # cache \/ acqCount' # acqCount) =>
            \E t \in Handlers :
                Moves(t) /\ pc[t] \in {"fetch", "store_data", "store_time"}]_vars

\* a call is answered from a fresh, non-empty cache without an acquisition
C2_Witness ==
    \E t \in Handlers :
        /\ pc[t] = "match"
        /\ acq[t] = 0
        /\ ~IsEmpty(buylist[t])
        /\ now[t] - cache.fetched_at = DKO_BUYLIST_TTL

\* C3: every overwrite of the cache replaces it with equivalent or
\* newer data: fetched_at never decreases, and the cached mapping is never
\* replaced by a different mapping that an older acquisition produced.
C3_OverwriteOnlyNewer ==
    [][/\ cache'.fetched_at >= cache.fetched_at
       /\ dataAcq' < dataAcq => cache'.data = cache.data]_vars

-----------------------------------------------------------------------------
(* _fetch_dkoldies_buylist on its own: every live response against every     *)
(* bundled file                                                              *)

MaxRows == 2            \* rows of the live page
MaxItems == 2           \* records of the bundled file

SeqsUpTo(S, n) == UNION {[1..k -> S] : k \in 0..n}

NameQ == <<"Q">>
NameQ2 == <<"q", "!">>                  \* the key of NameQ
NameA == <<"A">>                        \* normalises to ""
NameZ3Low == <<"z", " ", "3">>          \* the key of NameZ3

NoLabelRow == [has_label |-> FALSE, label |-> <<>>, has_price |-> TRUE,
               price |-> Num(300)]
NoNameItem == [has_name |-> FALSE, name |-> <<>>, has_cents |-> TRUE, cents |-> 100]

RowPool == { Row(NameZ3, Num(4500)),
             Row(NameZ3Low, PriceText("num", TRUE, TRUE, 125000)),
             Row(NameM, Num(0)),
             Row(NameThe, Num(250)),
             Row(NameZM, PriceText("inf", FALSE, FALSE, 0)),
             Row(NameZM, PriceText("junk", FALSE, FALSE, 0)),
             NoLabelRow }

ItemPool == { Item(NameQ, 700), Item(NameQ2, 0), Item(NameA, 100), NoNameItem }

FetchLives ==
    { [transport |-> "ConnectionError", ok |-> FALSE, challenge |-> FALSE, rows |-> <<>>],
      [transport |-> "Timeout", ok |-> FALSE, challenge |-> FALSE, rows |-> <<>>],
      [transport |-> "ok", ok |-> FALSE, challenge |-> FALSE, rows |-> <<>>],
      [transport |-> "ok", ok |-> TRUE, challenge |-> TRUE, rows |-> <<>>] }
    \cup {LivePage(rows) : rows \in SeqsUpTo(RowPool, MaxRows)}

FetchFiles ==
    { FileMissing, [state |-> "bad_json", items |-> <<>>] }
    \cup {FileList(items) : items \in SeqsUpTo(ItemPool, MaxItems)}

FetchInit ==
    /\ input \in [live : FetchLives, file : FetchFiles]
    /\ output = <<>>
    /\ done = FALSE

ApplyFetch ==
    /\ ~done
    /\ output' = FetchDkoldiesBuylist(input.live, input.file)
    /\ done' = TRUE
    /\ UNCHANGED input

InitFetch == CacheInit /\ DbInit /\ FetchInit

NextFetch == ApplyFetch /\ UNCHANGED <<cacheVars, dbVars>>

SpecFetch == InitFetch /\ [][NextFetch]_vars

\* the live GET succeeded, the body has no challenge marker and some row has a
\* strictly positive price
LiveUsable(live) ==
    /\ live.transport = "ok"
    /\ live.ok
    /\ ~live.challenge
    /\ \E i \in 1..Len(live.rows) :
          /\ live.rows[i].has_price
          /\ live.rows[i].price.body = "num"
          /\ live.rows[i].price.value100 > 0

WellFormed(file) ==
    /\ file.state = "list"
    /\ \A i \in 1..Len(file.items) : file.items[i].has_name /\ file.items[i].has_cents

\* every entry is a row of the live page, under the key of its label
FromLive(d, live) ==
    \A i \in 1..Len(d) :
        \E j \in 1..Len(live.rows) :
            /\ live.rows[j].has_label
            /\ live.rows[j].label = d[i].name
            /\ live.rows[j].price.value100 = d[i].cents

\* the mapping of the bundled snapshot: every entry is a record of the file,
\* and every record of a well-formed file has its key in the mapping
FromFile(d, file) ==
    /\ \A i \in 1..Len(d) :
          \E j \in 1..Len(file.items) :
              /\ d[i].name = file.items[j].name
              /\ d[i].cents = file.items[j].cents
    /\ WellFormed(file) =>
          \A j \in 1..Len(file.items) :
              \E i \in 1..Len(d) : d[i].key = Normalise(file.items[j].name)

\* C4: acquisition returns the live mapping only when the live GET succeeded,
\* was not blocked and had a row with a strictly positive price; in every other
\* case it returns the mapping built from the bundled snapshot, which is
\* non-empty whenever the bundled file is a non-empty list of records.
C4_LiveElseBundled ==
    done =>
        /\ output.exc = "none"
        /\ (~IsEmpty(output.val) /\ FromLive(output.val, input.live))
               => LiveUsable(input.live)
        /\ ~LiveUsable(input.live) =>
               /\ FromFile(output.val, input.file)
               /\ (WellFormed(input.file) /\ Len(input.file.items) > 0)
                      => Len(output.val) > 0

\* a blocked live page is answered from a non-empty bundled file
C4_Witness ==
    /\ done
    /\ input.live.challenge
    /\ WellFormed(input.file)
    /\ Len(input.file.items) = MaxItems
    /\ Len(output.val) > 0
    /\ FromFile(output.val, input.file)

FileUnusable(file) == ~WellFormed(file) \/ Len(file.items) = 0

\* C5: acquisition never raises, and returns the empty mapping when neither
\* source is usable, for which get_dkoldies_buy_price returns absent.
C5_NeverRaises ==
    done =>
        /\ output.exc = "none"
        /\ (~LiveUsable(input.live) /\ FileUnusable(input.file)) => output.val = <<>>
        /\ output.val = <<>> =>
               \A q \in CacheQueries : ~MatchBuyPrice(output.val, q).has

\* a live row whose price overflows, with no bundled file: the empty mapping
C5_Witness ==
    /\ done
    /\ input.live.transport = "ok" /\ input.live.ok /\ ~input.live.challenge
    /\ \E i \in 1..Len(input.live.rows) : input.live.rows[i].price.body = "inf"
    /\ input.file.state = "missing"
    /\ output = Ret(<<>>)

-----------------------------------------------------------------------------
(* The matcher on its own: every query against every buy-list *)

MaxKeys == 3            \* records the buy-list is built from

Name3 == <<"3">>
NameZ == <<"Z">>
NameZQ3 == <<"z", "-", "q", " ", "3">>           \* "z-q 3" -> "z q 3"
NameZ3N64 == <<"Z", " ", "3", " ", "(", "N", "6", "4", ")">>   \* -> "z 3"

MatchNames == {NameZ, Name3, NameZ3, NameZQ3, NameThe, NameM}

\* the buy-lists _load_buylist_from_json builds from up to MaxKeys records
MatchMappings ==
    {LoadItems(items, <<>>).val :
        items \in SeqsUpTo({Item(n, 100 + Len(n)) : n \in MatchNames}, MaxKeys)}

MatchQueries == { <<>>, <<" ", " ">>, NameThe, NameZ3N64, NameZ,
                  <<"z", " ", "m", " ", "x">>, <<"q", " ", "x", " ", "y">> }

MatchInit ==
    /\ input \in [mapping : MatchMappings, game_name : MatchQueries]
    /\ output = <<>>
    /\ done = FALSE

ApplyMatch ==
    /\ ~done
    /\ output' = MatchBuyPrice(input.mapping, input.game_name)
    /\ done' = TRUE
    /\ UNCHANGED input

InitMatch == CacheInit /\ DbInit /\ MatchInit

NextMatch == ApplyMatch /\ UNCHANGED <<cacheVars, dbVars>>

SpecMatch == InitMatch /\ [][NextMatch]_vars

\* N and K of the claims
NeedleTokens == WordSet(Normalise(input.game_name))
KeyTokens(i) == WordSet(input.mapping[i].key)

Overlap(i) == Cardinality(NeedleTokens \cap KeyTokens(i))
Larger(i) == Max(Cardinality(NeedleTokens), Cardinality(KeyTokens(i)))

\* score(i) < score(j) and score(i) = score(j), for a non-empty N
ScoreLess(i, j) == Overlap(i) * Larger(j) < Overlap(j) * Larger(i)
ScoreSame(i, j) == Overlap(i) * Larger(j) = Overlap(j) * Larger(i)

IsEntry(i) ==
    /\ output.name = input.mapping[i].name
    /\ output.buy_cents = input.mapping[i].cents

\* C6: an entry is returned if and only if N is non-empty and some key K with a
\* non-empty token set has |N & K| / max(|N|, |K|) >= 0.5.
C6_MatchIffHalfOverlap ==
    done =>
        (output.has <=>
            /\ NeedleTokens # {}
            /\ \E i \in 1..Len(input.mapping) :
                  /\ KeyTokens(i) # {}
                  /\ 2 * Overlap(i) >= Larger(i))

\* a key that scores exactly 0.5, and none that scores more, is returned
C6_Witness ==
    /\ done
    /\ output.has
    /\ \A i \in 1..Len(input.mapping) : 2 * Overlap(i) <= Larger(i)
    /\ Len(input.mapping) = MaxKeys

\* C7: the entry returned is that of a key with the maximum score, and of the
\* first such key in the order of the mapping.
C7_FirstBestWins ==
    (done /\ output.has) =>
        \E i \in 1..Len(input.mapping) :
            /\ IsEntry(i)
            /\ \A j \in 1..Len(input.mapping) : ~ScoreLess(i, j)
            /\ \A j \in 1..(i - 1) : ScoreLess(j, i)

\* two keys tie for the maximum score and the earlier one is returned
C7_Witness ==
    /\ done
    /\ output.has
    /\ \E i, j \in 1..Len(input.mapping) :
          /\ i < j
          /\ IsEntry(i)
          /\ ScoreSame(i, j)
          /\ \A k \in 1..Len(input.mapping) : ~ScoreLess(i, k)

-----------------------------------------------------------------------------
(* deal_rating *)

\* pawn_cents / market_cents <= hundredths / 100
RatioAtMost(pawn_cents, market_cents, hundredths) ==
    IF market_cents > 0
    THEN 100 * pawn_cents <= hundredths * market_cents
    ELSE 100 * pawn_cents >= hundredths * market_cents

\* ratio < 0.40, ratio < 0.65, ratio < 0.85 of lines 295-299, with the ratio
\* pawn_cents / market_cents of line 292 kept as a fraction
RatioBelow(pawn_cents, market_cents, hundredths) ==
    IF market_cents > 0
    THEN 100 * pawn_cents < hundredths * market_cents
    ELSE 100 * pawn_cents > hundredths * market_cents

NoRating == [has |-> FALSE, tag |-> "", label |-> "", profit |-> 0]

\* `not x` of an optional integer: None and 0 are falsy
Falsy(x) == ~x.has \/ x.v = 0

\* margin_pct (a float rounded to one decimal) and emoji are left out
DealRating(pawn_cents, market_cents) ==
    IF Falsy(pawn_cents) \/ Falsy(market_cents) \/ market_cents.v = 0 THEN NoRating
    ELSE LET p == pawn_cents.v
             m == market_cents.v
             tl == IF RatioBelow(p, m, 40) THEN <<"steal", "STEAL">>
                   ELSE IF RatioBelow(p, m, 65) THEN <<"good", "GOOD DEAL">>
                   ELSE IF RatioBelow(p, m, 85) THEN <<"fair", "FAIR">>
                   ELSE <<"pass", "PASS">>
         IN  [has |-> TRUE, tag |-> tl[1], label |-> tl[2], profit |-> m - p]

MaxCents == 20          \* largest price, in cents
NegCents == 1           \* prices go down to -NegCents

OptCents == {Absent} \cup {Some(v) : v \in (0 - NegCents)..MaxCents}

DealInit ==
    /\ input \in [pawn_cents : OptCents, market_cents : OptCents]
    /\ output = <<>>
    /\ done = FALSE

ApplyDeal ==
    /\ ~done
    /\ output' = DealRating(input.pawn_cents, input.market_cents)
    /\ done' = TRUE
    /\ UNCHANGED input

InitDeal == CacheInit /\ DbInit /\ DealInit

NextDeal == ApplyDeal /\ UNCHANGED <<cacheVars, dbVars>>

SpecDeal == InitDeal /\ [][NextDeal]_vars

\* the tag of the tiers of the claim, for cost c and market m # 0:
\* c / m < 2/5, < 13/20, < 17/20
TierOf(c, m) ==
    IF m > 0
    THEN IF 5 * c < 2 * m THEN "steal"
         ELSE IF 20 * c < 13 * m THEN "good"
         ELSE IF 20 * c < 17 * m THEN "fair"
         ELSE "pass"
    ELSE IF 5 * c > 2 * m THEN "steal"
         ELSE IF 20 * c > 13 * m THEN "good"
         ELSE IF 20 * c > 17 * m THEN "fair"
         ELSE "pass"

\* C8: deal_rating returns absent exactly when cost or market is missing or
\* zero; otherwise profit = market - cost and the tag of the tier of
\* cost / market, a ratio on a boundary falling into the upper tier.
C8_DealTiers ==
    done =>
        LET c == input.pawn_cents
            m == input.market_cents
        IN  /\ output.has <=> (c.has /\ m.has /\ c.v # 0 /\ m.v # 0)
            /\ output.has =>
                  /\ output.profit = m.v - c.v
                  /\ output.tag = TierOf(c.v, m.v)

\* a ratio of exactly 0.40 is rated good
C8_Witness ==
    /\ done
    /\ output.has
    /\ input.market_cents.v > 0
    /\ 5 * input.pawn_cents.v = 2 * input.market_cents.v
    /\ output.tag = "good"
    /\ output.profit > 0

-----------------------------------------------------------------------------
(* get_pricecharting_prices *)

\* lines 123-125 and 134: the keys read, in order, and the labels they set
ChartKeys == << <<"used", "loose">>, <<"cib", "cib">>, <<"new", "new">>,
                <<"graded", "graded">>, <<"boxonly", "box_only">>,
                <<"manualonly", "manual_only">> >>
HtmlIds == << <<"used-price", "loose">>, <<"complete-price", "cib">>,
              <<"new-price", "new">> >>

Labels == {ChartKeys[i][2] : i \in 1..Len(ChartKeys)}

\* a value of the prices dict: no key, a number, or another JSON value
PriceAbsent == [has |-> FALSE, num |-> FALSE, v |-> 0]
PriceNum(v) == [has |-> TRUE, num |-> TRUE, v |-> v]
PriceOther == [has |-> TRUE, num |-> FALSE, v |-> 0]

EmptyPrices == [l \in Labels |-> PriceAbsent]

\* A value of chart_data: kind is "missing" (no such key), "falsy" (null, 0,
\* "", [], {}), "number", "string", "object" or "array" (items, not empty).
\* An entry of an array: kind is "pair" ([t, p]), "pair_text" ([t, "..."]),
\* "short" (a list of fewer than two), "scalar" (a number, null, a boolean),
\* "object", "char" (a string of one character) or "string".
JsonValue(kind, items) == [kind |-> kind, items |-> items]
JsonEntry(kind, t, p) == [kind |-> kind, t |-> t, p |-> p]

\* chart_data[key][-1][1] with the oldest entry, [0], for the most recent
OldestPrice(value) ==
    CASE value.kind = "number" -> Raise("TypeError")
      [] value.kind = "string" -> Raise("IndexError")
      [] value.kind = "object" -> Raise("KeyError")
      [] value.kind = "array" ->
            LET e == value.items[1]
            IN  CASE e.kind = "pair" -> Ret(PriceNum(e.p))
                  [] e.kind \in {"pair_text", "string"} -> Ret(PriceOther)
                  [] e.kind \in {"short", "char"} -> Raise("IndexError")
                  [] e.kind = "scalar" -> Raise("TypeError")
                  [] e.kind = "object" -> Raise("KeyError")

\* chart_data[key][-1][1] of line 127, for a truthy chart_data[key]
LastPrice(value) ==
    CASE value.kind = "number" -> Raise("TypeError")
      [] value.kind = "string" -> Raise("IndexError")
      [] value.kind = "object" -> Raise("KeyError")
      [] value.kind = "array" ->
            LET e == value.items[Len(value.items)]
            IN  CASE e.kind = "pair" -> Ret(PriceNum(e.p))
                  [] e.kind \in {"pair_text", "string"} -> Ret(PriceOther)
                  [] e.kind \in {"short", "char"} -> Raise("IndexError")
                  [] e.kind = "scalar" -> Raise("TypeError")
                  [] e.kind = "object" -> Raise("KeyError")

\* the loop of lines 123-127: the prices set so far, and the exception, if any
RECURSIVE ChartLoop(_, _, _)
ChartLoop(keys, chart_data, prices) ==
    IF keys = <<>> THEN [exc |-> "none", val |-> prices]
    ELSE LET key == Head(keys)[1]
             label == Head(keys)[2]
             value == chart_data[key]
         IN  IF value.kind \in {"missing", "falsy"}
             THEN ChartLoop(Tail(keys), chart_data, prices)
             ELSE LET r == LastPrice(value)
                  IN  IF r.exc # "none" THEN [exc |-> r.exc, val |-> prices]
                      ELSE ChartLoop(Tail(keys), chart_data,
                                     [prices EXCEPT ![label] = r.val])

\* lines 119-129: chart is [found, json_ok, data]
ChartPrices(chart) ==
    IF ~chart.found THEN [exc |-> "none", val |-> EmptyPrices]
    ELSE LET r == IF chart.json_ok THEN ChartLoop(ChartKeys, chart.data, EmptyPrices)
                  ELSE [exc |-> "JSONDecodeError", val |-> EmptyPrices]
         IN  IF r.exc \in {"none", "JSONDecodeError", "KeyError", "IndexError"}
             THEN [exc |-> "none", val |-> r.val]
             ELSE r

\* An element of the page: [present, attr, text], attr the text of its
\* data-price attribute ("empty" body, no "$", no ",": none or "").
\* line 138: raw = el.get("data-price") or el.text.strip().replace("$", "")
HtmlRaw(el) ==
    IF el.attr.body # "empty" \/ el.attr.dollar \/ el.attr.comma
    THEN el.attr
    ELSE [el.text EXCEPT !.dollar = FALSE]

\* line 139: int(float(raw) * 100)
IntFloat100(raw) ==
    CASE raw.dollar \/ raw.comma -> Raise("ValueError")
      [] raw.body \in {"empty", "junk", "nan"} -> Raise("ValueError")
      [] raw.body = "inf" -> Raise("OverflowError")
      [] raw.body = "num" -> Ret(raw.value100)

\* the loop of lines 134-141
RECURSIVE HtmlLoop(_, _, _)
HtmlLoop(ids, html, prices) ==
    IF ids = <<>> THEN [exc |-> "none", val |-> prices]
    ELSE LET el == html[Head(ids)[1]]
             label == Head(ids)[2]
         IN  IF ~el.present THEN HtmlLoop(Tail(ids), html, prices)
             ELSE LET r == IntFloat100(HtmlRaw(el))
                  IN  IF r.exc = "none"
                      THEN HtmlLoop(Tail(ids), html,
                                    [prices EXCEPT ![label] = PriceNum(r.val)])
                      ELSE IF r.exc \in {"ValueError", "AttributeError"}
                      THEN HtmlLoop(Tail(ids), html, prices)
                      ELSE [exc |-> r.exc, val |-> prices]

\* lines 143-155: h1 is [present, stem, suffix], its first text stem, followed
\* by " Prices" when suffix
TitleOf(h1, game_slug) ==
    IF h1.present THEN [from |-> "h1", text |-> h1.stem]
    ELSE [from |-> "slug", text |-> game_slug]

Snapshot(title, url, prices, error) ==
    [title |-> title, url |-> url, prices |-> prices, error |-> error]

\* resp is [http, chart, html, h1]; http is "ok" or the exception of
\* session.get or raise_for_status
GetPricechartingPrices(pc_console, game_slug, resp) ==
    LET url == <<pc_console, game_slug>>
    IN  IF resp.http # "ok"
        THEN Ret(Snapshot([from |-> "slug", text |-> game_slug], url, EmptyPrices,
                          resp.http))
        ELSE LET c == ChartPrices(resp.chart)
             IN  IF c.exc # "none" THEN Raise(c.exc)
                 ELSE LET h == IF c.val = EmptyPrices
                               THEN HtmlLoop(HtmlIds, resp.html, c.val)
                               ELSE c
                      IN  IF h.exc # "none" THEN Raise(h.exc)
                          ELSE Ret(Snapshot(TitleOf(resp.h1, game_slug), url, h.val, ""))

-----------------------------------------------------------------------------
(* get_pricecharting_prices on its own: every sample page *)

MaxSeries == 2          \* entries of one series of chart_data

Pair(t, p) == JsonEntry("pair", t, p)
Missing == JsonValue("missing", <<>>)
Array(items) == JsonValue("array", items)

EntryPool == { Pair(1, 1200), Pair(2, 1500), JsonEntry("pair_text", 3, 0),
               JsonEntry("short", 0, 0), JsonEntry("scalar", 0, 0) }

\* the series of the source are in the order of their times
Chronological(items) ==
    \A i, j \in 1..Len(items) :
        (i < j /\ items[i].kind = "pair" /\ items[j].kind = "pair")
            => items[i].t < items[j].t

UsedValues ==
    { Missing, JsonValue("falsy", <<>>), JsonValue("number", <<>>),
      JsonValue("string", <<>>), JsonValue("object", <<>>) }
    \cup {Array(items) : items \in {x \in SeqsUpTo(EntryPool, MaxSeries) :
                                       Len(x) > 0 /\ Chronological(x)}}
CibValues == { Missing, Array(<<Pair(3, 2500)>>), JsonValue("number", <<>>),
               Array(<<JsonEntry("object", 0, 0)>>) }
ManualValues == { Missing, Array(<<Pair(1, 900)>>) }

ChartData(used, cib, manualonly) ==
    [k \in {ChartKeys[i][1] : i \in 1..Len(ChartKeys)} |->
        CASE k = "used" -> used
          [] k = "cib" -> cib
          [] k = "manualonly" -> manualonly
          [] OTHER -> Missing]

NoChartData == ChartData(Missing, Missing, Missing)

PageCharts ==
    { [found |-> FALSE, json_ok |-> FALSE, data |-> NoChartData],
      [found |-> TRUE, json_ok |-> FALSE, data |-> NoChartData] }
    \cup { [found |-> TRUE, json_ok |-> TRUE, data |-> ChartData(u, c, m)] :
              u \in UsedValues, c \in CibValues, m \in ManualValues }

NoAttr == PriceText("empty", FALSE, FALSE, 0)
NoElement == [present |-> FALSE, attr |-> NoAttr, text |-> NoAttr]
Element(attr, text) == [present |-> TRUE, attr |-> attr, text |-> text]

UsedElements ==
    { NoElement,
      Element(NoAttr, Num(1999)),
      Element(PriceText("num", FALSE, FALSE, 1899), Num(1999)),
      Element(NoAttr, PriceText("num", TRUE, TRUE, 199900)),
      Element(NoAttr, PriceText("inf", FALSE, FALSE, 0)),
      Element(NoAttr, PriceText("junk", FALSE, FALSE, 0)) }
CompleteElements == { NoElement, Element(NoAttr, Num(2999)) }

PageHtmls ==
    { [id \in {HtmlIds[i][1] : i \in 1..Len(HtmlIds)} |->
          CASE id = "used-price" -> u
            [] id = "complete-price" -> c
            [] OTHER -> NoElement] :
      u \in UsedElements, c \in CompleteElements }

PageTitles == { [present |-> FALSE, stem |-> "", suffix |-> FALSE],
                [present |-> TRUE, stem |-> "Zelda", suffix |-> TRUE] }

PageResponses ==
    [http : {"ok"}, chart : PageCharts, html : PageHtmls, h1 : PageTitles]
    \cup [http : {"HTTPError", "Timeout"},
          chart : {[found |-> FALSE, json_ok |-> FALSE, data |-> NoChartData]},
          html : PageHtmls, h1 : PageTitles]

PricesInit ==
    /\ input \in [pc_console : {"nes"}, game_slug : {"zelda"}, resp : PageResponses]
    /\ output = <<>>
    /\ done = FALSE

ApplyPrices ==
    /\ ~done
    /\ output' = GetPricechartingPrices(input.pc_console, input.game_slug, input.resp)
    /\ done' = TRUE
    /\ UNCHANGED input

InitPrices == CacheInit /\ DbInit /\ PricesInit

NextPrices == ApplyPrices /\ UNCHANGED <<cacheVars, dbVars>>

SpecPrices == InitPrices /\ [][NextPrices]_vars

\* C9: get_pricecharting_prices never fails; whatever the HTTP
\* outcome and the body, it returns a snapshot whose prices are the parsed
\* numbers, a field that could not be parsed being absent.
C9_NeverFails ==
    done =>
        /\ output.exc = "none"
        /\ \A l \in Labels : output.val.prices[l].has => output.val.prices[l].num

\* the value of a key is a series of [time, price] pairs, or there is none
WellFormedValue(value) ==
    \/ value.kind \in {"missing", "falsy"}
    \/ /\ value.kind = "array"
       /\ \A i \in 1..Len(value.items) : value.items[i].kind = "pair"

WellFormedChart(chart) ==
    /\ chart.found
    /\ chart.json_ok
    /\ \A i \in 1..Len(ChartKeys) : WellFormedValue(chart.data[ChartKeys[i][1]])

HasSeries(chart) ==
    \E i \in 1..Len(ChartKeys) : chart.data[ChartKeys[i][1]].kind = "array"

\* the price of the entry of a series with the latest time
MostRecent(items) ==
    (CHOOSE e \in Range(items) : \A f \in Range(items) : f.t <= e.t).p

\* the prices of the sample elements, and of no sample series
HtmlCents == {1999, 1899, 2999, 199900}

FromHtml(price) == price.has /\ price.num /\ price.v \in HtmlCents

\* C10: with a well-formed chart_data block that holds a series, every price
\* returned is that of the most recent entry of its series and none comes
\* from the HTML elements; a price comes from the HTML elements only when the
\* block has produced none.
C10_ChartPreferred ==
    (done /\ input.resp.http = "ok") =>
        LET chart == input.resp.chart
        IN  /\ (WellFormedChart(chart) /\ HasSeries(chart)) =>
                  /\ output.exc = "none"
                  /\ \A i \in 1..Len(ChartKeys) :
                        LET value == chart.data[ChartKeys[i][1]]
                        IN  output.val.prices[ChartKeys[i][2]] =
                                IF value.kind = "array"
                                THEN PriceNum(MostRecent(value.items))
                                ELSE PriceAbsent
            /\ (output.exc = "none" /\ \E l \in Labels : FromHtml(output.val.prices[l])) =>
                  /\ ~(WellFormedChart(chart) /\ HasSeries(chart))
                  /\ \A l \in Labels :
                        output.val.prices[l].has => FromHtml(output.val.prices[l])

\* a page with a two-entry series and the HTML elements: the later entry wins
C10_Witness ==
    /\ done
    /\ input.resp.http = "ok"
    /\ WellFormedChart(input.resp.chart)
    /\ Len(input.resp.chart.data["used"].items) = MaxSeries
    /\ input.resp.html["used-price"].present
    /\ input.resp.html["used-price"].text.body = "num"
    /\ input.resp.html["complete-price"].present
    /\ output.exc = "none"
    /\ output.val.prices["loose"] = PriceNum(1500)
    /\ ~output.val.prices["cib"].has

-----------------------------------------------------------------------------
(* search_pricecharting *)

\* CONSOLES, in source order: the internal key, the display name and the
\* PriceCharting platform identifier
Console(key, name, pcid) == [key |-> key, name |-> name, pc |-> pcid]

CONSOLES == <<
    Console(<<"n","e","s">>, "NES", "nes"),
    Console(<<"s","n","e","s">>, "SNES", "super-nintendo"),
    Console(<<"n","6","4">>, "N64", "nintendo-64"),
    Console(<<"g","a","m","e","b","o","y">>, "Game Boy", "gameboy"),
    Console(<<"g","b","c">>, "Game Boy Color", "gameboy-color"),
    Console(<<"g","b","a">>, "GBA", "gameboy-advance"),
    Console(<<"g","a","m","e","c","u","b","e">>, "GameCube", "gamecube"),
    Console(<<"w","i","i">>, "Wii", "wii"),
    Console(<<"n","d","s">>, "Nintendo DS", "nintendo-ds"),
    Console(<<"3","d","s">>, "3DS", "nintendo-3ds"),
    Console(<<"s","w","i","t","c","h">>, "Switch", "nintendo-switch"),
    Console(<<"g","e","n","e","s","i","s">>, "Sega Genesis", "sega-genesis"),
    Console(<<"d","r","e","a","m","c","a","s","t">>, "Dreamcast", "sega-dreamcast"),
    Console(<<"s","a","t","u","r","n">>, "Sega Saturn", "sega-saturn"),
    Console(<<"g","a","m","e","g","e","a","r">>, "Game Gear", "sega-game-gear"),
    Console(<<"p","s","1">>, "PS1", "playstation"),
    Console(<<"p","s","2">>, "PS2", "playstation-2"),
    Console(<<"p","s","3">>, "PS3", "playstation-3"),
    Console(<<"p","s","p">>, "PSP", "psp"),
    Console(<<"x","b","o","x">>, "Xbox", "xbox"),
    Console(<<"x","b","o","x","3","6","0">>, "Xbox 360", "xbox-360"),
    Console(<<"a","t","a","r","i","2","6","0","0">>, "Atari 2600", "atari-2600") >>

ConsoleKeys == {CONSOLES[i].key : i \in 1..Len(CONSOLES)}

\* an optional text: None, or a str
NoText == [has |-> FALSE, text |-> ""]
Text(t) == [has |-> TRUE, text |-> t]

\* an optional console_key: None, or a str written character by character
NoKey == [has |-> FALSE, text |-> <<>>]
Key(t) == [has |-> TRUE, text |-> t]

\* CONSOLES.get(console_key, {}).get("pc") if console_key else None
PcConsoleFilter(console_key) ==
    IF ~console_key.has \/ console_key.text = <<>> \/ console_key.text \notin ConsoleKeys
    THEN NoText
    ELSE Text((CHOOSE c \in Range(CONSOLES) : c.key = console_key.text).pc)

\* href: whether it holds "/game/", and what follows the first "/game/"
\* split at "/"
Href(game, parts) == [game |-> game, parts |-> parts]

\* a row of the results table: the link of td.title (None when the row has
\* none), the text of td.console (None when the row has none) and the texts
\* of its td.price cells
SearchRow(link, name, console, prices) ==
    [link |-> link, name |-> name, console |-> console, prices |-> prices]

NoLink == [has |-> FALSE, href |-> Href(FALSE, <<>>)]
Link(href) == [has |-> TRUE, href |-> href]

\* pc_console.replace("-", " ").title()
Humanize(pc_console) ==
    CASE pc_console = "nintendo-64" -> "Nintendo 64"
      [] pc_console = "nes" -> "Nes"
      [] pc_console = "sega-game-gear" -> "Sega Game Gear"
      [] OTHER -> pc_console

\* the rows the loop skips (lines 71-87)
Skipped(row, pc_console_filter) ==
    \/ ~row.link.has
    \/ ~row.link.href.game
    \/ Len(row.link.href.parts) < 2
    \/ pc_console_filter.has /\ row.link.href.parts[1] # pc_console_filter.text

\* the dict appended by lines 95-102, or the exception raised by _parse_price
CatalogEntry(row) ==
    LET pc_console == row.link.href.parts[1]
        game_slug == row.link.href.parts[2]
        console_name == IF row.console.has THEN row.console.text
                        ELSE Humanize(pc_console)
        loose == IF Len(row.prices) > 0 THEN ParsePrice(row.prices[1]) ELSE Ret(Absent)
        cib == IF Len(row.prices) > 1 THEN ParsePrice(row.prices[2]) ELSE Ret(Absent)
    IN  IF loose.exc # "none" THEN Raise(loose.exc)
        ELSE IF cib.exc # "none" THEN Raise(cib.exc)
        ELSE Ret([name |-> row.name, console_name |-> console_name,
                  pc_console |-> pc_console, slug |-> game_slug,
                  loose_cents |-> loose.val, cib_cents |-> cib.val])

\* for row in table.select("tbody tr"), from results
RECURSIVE SearchLoop(_, _, _)
SearchLoop(rows, pc_console_filter, results) ==
    IF rows = <<>> THEN Ret(results)
    ELSE IF Skipped(Head(rows), pc_console_filter)
    THEN SearchLoop(Tail(rows), pc_console_filter, results)
    ELSE LET entry == CatalogEntry(Head(rows))
         IN  IF entry.exc # "none" THEN Raise(entry.exc)
             ELSE SearchLoop(Tail(rows), pc_console_filter, Append(results, entry.val))

\* results[:n]
Take(results, n) == SubSeq(results, 1, IF Len(results) < n THEN Len(results) ELSE n)

SearchLimit == 15

\* resp: http is "error" when session.get or raise_for_status raises; table
\* says that the page holds the results table; rows are its tbody tr
SearchPricecharting(resp, console_key) ==
    IF resp.http = "error" THEN Ret(<<>>)
    ELSE IF ~resp.table THEN Ret(<<>>)
    ELSE LET looped == SearchLoop(resp.rows, PcConsoleFilter(console_key), <<>>)
         IN  IF looped.exc # "none" THEN looped
             ELSE Ret(Take(looped.val, SearchLimit))

MaxPageRows == 32       \* rows of the results table
MaxPattern == 2         \* length of the repeated pattern of row kinds

RowKinds == {"n64", "nes", "long", "nolink", "offsite", "short", "junk", "inf"}

\* the i-th row of a page, of a given kind; the slug of row i is written i
RowOfKind(kind, i) ==
    CASE kind = "n64" ->
            SearchRow(Link(Href(TRUE, <<"nintendo-64", i>>)), "Zelda", Text("Nintendo 64"),
                      <<PriceText("num", TRUE, FALSE, 4500), PriceText("num", TRUE, TRUE, 129900)>>)
      [] kind = "nes" ->
            SearchRow(Link(Href(TRUE, <<"nes", i>>)), "Metroid", NoText,
                      <<PriceText("num", TRUE, FALSE, 1500)>>)
      [] kind = "long" ->
            SearchRow(Link(Href(TRUE, <<"nintendo-64", i, "history">>)), "Zelda", NoText, <<>>)
      [] kind = "nolink" ->
            SearchRow(NoLink, "", Text("Nintendo 64"), <<>>)
      [] kind = "offsite" ->
            SearchRow(Link(Href(FALSE, <<>>)), "Ad", NoText, <<>>)
      [] kind = "short" ->
            SearchRow(Link(Href(TRUE, <<"nintendo-64">>)), "Console", NoText, <<>>)
      [] kind = "junk" ->
            SearchRow(Link(Href(TRUE, <<"nes", i>>)), "Metroid", Text("NES"),
                      <<PriceText("junk", FALSE, FALSE, 0), PriceText("empty", FALSE, FALSE, 0)>>)
      [] kind = "inf" ->
            SearchRow(Link(Href(TRUE, <<"nes", i>>)), "Metroid", Text("NES"),
                      <<PriceText("num", TRUE, FALSE, 1500), PriceText("inf", TRUE, FALSE, 0)>>)

\* a page of n rows whose kinds repeat a pattern
PageRows(n, pattern) ==
    [i \in 1..n |-> RowOfKind(pattern[((i - 1) % Len(pattern)) + 1], i)]

SearchPages ==
    {PageRows(n, pattern) :
        n \in 0..MaxPageRows, pattern \in SeqsUpTo(RowKinds, MaxPattern) \ {<<>>}}

SearchResponses ==
    {[http |-> "error", table |-> FALSE, rows |-> <<>>],
     [http |-> "ok", table |-> FALSE, rows |-> <<>>]}
    \cup {[http |-> "ok", table |-> TRUE, rows |-> rows] : rows \in SearchPages}

SearchKeys ==
    {NoKey, Key(<<>>), Key(<<"n","6","4">>), Key(<<"n","e","s">>), Key(<<"z","z">>)}

SearchInit ==
    /\ input \in [resp : SearchResponses, console_key : SearchKeys]
    /\ output = <<>>
    /\ done = FALSE

ApplySearch ==
    /\ ~done
    /\ output' = SearchPricecharting(input.resp, input.console_key)
    /\ done' = TRUE
    /\ UNCHANGED input

InitSearch == CacheInit /\ DbInit /\ SearchInit

NextSearch == ApplySearch /\ UNCHANGED <<cacheVars, dbVars>>

SpecSearch == InitSearch /\ [][NextSearch]_vars

\* the link of a row has the /game/<platform_id>/<item_slug> shape
HasShape(row) ==
    row.link.has /\ row.link.href.game /\ Len(row.link.href.parts) >= 2

\* the filter's mapped source identifier, when a filter is given and mapped
MappedIdentifier(console_key) ==
    IF console_key.has /\ console_key.text \in ConsoleKeys
    THEN {(CHOOSE c \in Range(CONSOLES) : c.key = console_key.text).pc}
    ELSE {}

\* the rows the claim counts, in source row order
Counted(rows, console_key) ==
    SelectSeq(rows, LAMBDA row :
        /\ HasShape(row)
        /\ \A id \in MappedIdentifier(console_key) : row.link.href.parts[1] = id)

\* the entries are those of the first 15 counted rows, in order
FirstFifteen(entries, rows, console_key) ==
    LET counted == Counted(rows, console_key)
    IN  /\ Len(entries) <= 15
        /\ Len(entries) = (IF Len(counted) < 15 THEN Len(counted) ELSE 15)
        /\ \A k \in 1..Len(entries) :
              /\ entries[k].pc_console = counted[k].link.href.parts[1]
              /\ entries[k].slug = counted[k].link.href.parts[2]

\* C11: search_pricecharting returns at most 15 entries, exactly the first 15
\* in source row order of the rows whose link has the shape and whose
\* platform_id equals the filter's mapped identifier; on request failure it
\* returns the empty sequence.
C11_FirstFifteenInOrder ==
    done =>
        /\ output.exc = "none"
        /\ IF input.resp.http = "error" THEN output.val = <<>>
           ELSE FirstFifteen(output.val, input.resp.rows, input.console_key)

\* whenever search_pricecharting returns, it returns what the claim says
SearchReturnsFirstFifteen ==
    (done /\ output.exc = "none") =>
        IF input.resp.http = "error" THEN output.val = <<>>
        ELSE FirstFifteen(output.val, input.resp.rows, input.console_key)

\* more than 15 counted rows among filtered-out ones: 15 entries come back
SearchTruncates ==
    /\ done
    /\ output.exc = "none"
    /\ input.console_key = Key(<<"n","6","4">>)
    /\ Len(Counted(input.resp.rows, input.console_key)) > 15
    /\ Len(Counted(input.resp.rows, input.console_key)) < Len(input.resp.rows)
    /\ Len(output.val) = 15

-----------------------------------------------------------------------------
(* _normalise on its own *)

MaxPieces == 3          \* pieces a title is put together from

TitlePieces == {
    <<"T","h","e">>, <<"a">>, <<"n">>, <<" ">>, <<"-">>,
    <<"U+2122">>, <<"U+00E9">>, <<"U+2603">>,
    <<"W","i","i">>, <<"n","6","4">>, <<"3","d","s">>,
    <<"g","a","m","e","b","o","y">>, <<"z","e","l","d","a">> }

Titles == {Flatten(pieces) : pieces \in SeqsUpTo(TitlePieces, MaxPieces)}

NormaliseInit ==
    /\ input \in Titles
    /\ output = <<>>
    /\ done = FALSE

ApplyNormalise ==
    /\ ~done
    /\ output' = Normalise(input)
    /\ done' = TRUE
    /\ UNCHANGED input

InitNormalise == CacheInit /\ DbInit /\ NormaliseInit

NextNormalise == ApplyNormalise /\ UNCHANGED <<cacheVars, dbVars>>

SpecNormalise == InitNormalise /\ [][NextNormalise]_vars

\* C12: _normalise is idempotent: normalising what _normalise has returned
\* gives it back unchanged.
C12_Idempotent == done => Normalise(output) = output

\* a title with a capitalised stop word, a separator and a character folded
\* to ASCII: only the folded character is kept
C12_Witness ==
    /\ done
    /\ input = <<"T", "h", "e", "-", "U+00E9">>
    /\ output = <<"e">>

\* the filler words of the claim
FillerWords == {
    <<"t","h","e">>, <<"a">>, <<"a","n">>, <<"f","o","r">>, <<"i","n">>,
    <<"o","f">>, <<"a","n","d">>, <<"w","i","t","h">>, <<"w">> }

\* C13: no token of the output of _normalise is a filler word or an
\* internal platform key of CONSOLES.
C13_NoFillerOrPlatformToken ==
    done => WordSet(output) \cap (FillerWords \cup ConsoleKeys) = {}

\* no token of the output is a word of the alternation of line 249
NormaliseDropsStopWords == done => WordSet(output) \cap StopWords = {}

-----------------------------------------------------------------------------
(* db.py: the price cache, and the /prices handler of app.py that uses it *)

CACHE_TTL == 0

\* get_cached: the row of the key whose updated_at > int(time.time()) - CACHE_TTL
GetCached(table, key, t) ==
    IF table[key].has /\ table[key].row.updated_at > t - CACHE_TTL
    THEN table[key]
    ELSE NoRow

\* INTEGER PRIMARY KEY of a new row: one more than the largest id
NextId(table) ==
    LET ids == {table[k].row.id : k \in {j \in DOMAIN table : table[j].has}}
    IN  IF ids = {} THEN 1 ELSE (CHOOSE m \in ids : \A n \in ids : n <= m) + 1

\* save: INSERT ... ON CONFLICT(pc_console, slug) DO UPDATE; a row already
\* there keeps its id and takes every other column
Save(table, data, t) ==
    LET key == <<data.pc_console, data.slug>>
        id == IF table[key].has THEN table[key].row.id ELSE NextId(table)
    IN  [table EXCEPT ![key] =
            [has |-> TRUE,
             row |-> [id |-> id, pc_console |-> data.pc_console, slug |-> data.slug,
                      game_title |-> data.title,
                      loose_price |-> data.prices["loose"],
                      cib_price |-> data.prices["cib"],
                      new_price |-> data.prices["new"],
                      graded_price |-> data.prices["graded"],
                      dk_price |-> data.dk_price,
                      pc_url |-> data.pc_url, dk_url |-> data.dk_url,
                      updated_at |-> t]]]

\* what get_dkoldies_price returns: None, or a dict
NoDk == [has |-> FALSE, price_cents |-> 0, url |-> ""]
Dk(price_cents, url) == [has |-> TRUE, price_cents |-> price_cents, url |-> url]

\* the characters of a title of the sample pages; a title taken from the
\* slug is game_slug.replace("-", " ").title()
TitleChars(title) ==
    CASE title.text \in {"Zelda", "zelda"} -> <<"Z","e","l","d","a">>
      [] title.text = "metroid" -> <<"M","e","t","r","o","i","d">>
      [] OTHER -> <<>>

\* lines 77-87
Result(pc_console, slug, pc_data, dk_data, dk_buy_data) ==
    [pc_console |-> pc_console, slug |-> slug, title |-> pc_data.title,
     pc_url |-> pc_data.url,
     dk_url |-> IF dk_data.has THEN dk_data.url ELSE "",
     prices |-> pc_data.prices,
     dk_price |-> IF dk_data.has THEN Some(dk_data.price_cents) ELSE Absent,
     dk_buy_price |-> IF dk_buy_data.has THEN Some(dk_buy_data.buy_cents) ELSE Absent,
     dk_buy_name |-> dk_buy_data.name]

MaxRequests == 2        \* /prices requests of a run
MaxElapses == 2         \* steps of the clock of a run

\* get_dkoldies_buy_price run from start to end by the one request in
\* progress: the cache after it (lines 256-259)
Refreshed(buylist_data) == [data |-> buylist_data, fetched_at |-> clock]

\* GET /prices: resp is the page PriceCharting answers with, dk_data what
\* get_dkoldies_price returns, live and file what the buy-list acquisition
\* finds
Prices(pc_console, slug, game_name, resp, dk_data, live, file) ==
    /\ requests < MaxRequests
    /\ requests' = requests + 1
    /\ IF pc_console = "" \/ slug = ""
       THEN /\ response' = [status |-> "400", key |-> <<pc_console, slug>>, body |-> <<>>]
            /\ UNCHANGED <<price_cache, lookup, cache, calls, acqCount, dataAcq, stampAcq,
                           lastAcqNow>>
       ELSE LET key == <<pc_console, slug>>
                cached == GetCached(price_cache, key, clock)
                pc_data == GetPricechartingPrices(pc_console, slug, resp)
                refresh == Stale(clock, cache.fetched_at) \/ IsEmpty(cache.data)
                acquired == FetchDkoldiesBuylist(live, file)
            IN  /\ lookup' = [had |-> price_cache[key].has,
                              age |-> IF price_cache[key].has
                                      THEN clock - price_cache[key].row.updated_at
                                      ELSE 0,
                              row |-> price_cache[key].row]
                /\ IF cached.has
                   THEN /\ response' = [status |-> "cache", key |-> key, body |-> cached.row]
                        /\ UNCHANGED <<price_cache, cache, calls, acqCount, dataAcq,
                                       stampAcq, lastAcqNow>>
                   ELSE IF pc_data.exc # "none"
                   THEN /\ response' = [status |-> "raised", key |-> key, body |-> pc_data.exc]
                        /\ UNCHANGED <<price_cache, cache, calls, acqCount, dataAcq,
                                       stampAcq, lastAcqNow>>
                   ELSE /\ calls' = calls + 1
                        /\ IF refresh
                           THEN /\ acqCount' = acqCount + 1
                                /\ lastAcqNow' = clock
                           ELSE UNCHANGED <<acqCount, lastAcqNow>>
                        /\ IF refresh /\ acquired.exc # "none"
                           THEN /\ response' = [status |-> "raised", key |-> key,
                                                body |-> acquired.exc]
                                /\ UNCHANGED <<price_cache, cache, dataAcq, stampAcq>>
                           ELSE LET after == IF refresh THEN Refreshed(acquired.val)
                                             ELSE cache
                                    name == IF game_name # <<>> THEN game_name
                                            ELSE TitleChars(pc_data.val.title)
                                    result == Result(pc_console, slug, pc_data.val, dk_data,
                                                     MatchBuyPrice(after.data, name))
                                IN  /\ cache' = after
                                    /\ IF refresh
                                       THEN dataAcq' = acqCount + 1 /\ stampAcq' = acqCount + 1
                                       ELSE UNCHANGED <<dataAcq, stampAcq>>
                                    /\ price_cache' = Save(price_cache, result, clock)
                                    /\ response' = [status |-> "live", key |-> key,
                                                    body |-> result]
    /\ UNCHANGED <<clock, pc, now, query, fetched, buylist, acq, elapses, pureVars>>

\* time passes between two requests
Elapse(seconds) ==
    /\ elapses < MaxElapses
    /\ elapses' = elapses + 1
    /\ clock' = clock + seconds
    /\ UNCHANGED <<cache, pc, now, query, fetched, buylist, acq, calls, acqCount, dataAcq,
                   stampAcq, lastAcqNow, pureVars, price_cache, response, lookup, requests>>

ElapseSteps == {1, 24 * 60 * 60 - 1}

PricePages ==
    LET none == [id \in {HtmlIds[i][1] : i \in 1..Len(HtmlIds)} |-> NoElement]
        h1 == [present |-> TRUE, stem |-> "Zelda", suffix |-> TRUE]
        noh1 == [present |-> FALSE, stem |-> "", suffix |-> FALSE]
    IN  { [http |-> "ok",
           chart |-> [found |-> TRUE, json_ok |-> TRUE,
                      data |-> ChartData(Array(<<Pair(1, 1200), Pair(2, 1500)>>),
                                         Array(<<Pair(3, 2500)>>), Missing)],
           html |-> none, h1 |-> h1],
          [http |-> "ok",
           chart |-> [found |-> TRUE, json_ok |-> TRUE,
                      data |-> ChartData(JsonValue("number", <<>>), Missing, Missing)],
           html |-> none, h1 |-> h1],
          [http |-> "Timeout",
           chart |-> [found |-> FALSE, json_ok |-> FALSE, data |-> NoChartData],
           html |-> none, h1 |-> noh1] }

PriceNames == {<<>>} \cup CacheQueries

DkResults == {NoDk, Dk(5499, "dkoldies.com/zelda")}

NextPriceCache ==
    \/ \E pc_console \in {"nes", ""}, slug \in {"zelda", "metroid", ""},
          game_name \in PriceNames, resp \in PricePages, dk_data \in DkResults,
          live \in CacheLives, file \in CacheFiles :
          Prices(pc_console, slug, game_name, resp, dk_data, live, file)
    \/ \E seconds \in ElapseSteps : Elapse(seconds)

SpecPriceCache == Init /\ [][NextPriceCache]_vars

\* C14: a /prices request for a key saved less than 24 hours before is
\* answered with the saved row by get_cached, without a live fetch, and a
\* request for a key saved more than 24 hours before is not answered from
\* the cache.
C14_TtlOneDay ==
    (response.status \in {"cache", "live", "raised"} /\ lookup.had) =>
        /\ lookup.age < 24 * 60 * 60 =>
              response.status = "cache" /\ response.body = lookup.row
        /\ lookup.age > 24 * 60 * 60 => response.status # "cache"

\* get_cached returns absent for every row saved at or before the present
CacheNeverAnswers == response.status # "cache"

\* a second request for a saved key, one second after it was saved
SavedThenAskedAgain ==
    /\ lookup.had
    /\ lookup.age = 1
    /\ response.status = "live"

====
